---- MODULE Spec2Model ----
(***************************************************************************)
(* Model of src/app.py: the landmark fingerprinting pipeline of            *)
(* fingerprint_song and the /fingerprint endpoint that calls it.           *)
(*                                                                         *)
(* Units.  Every quantity is an exact integer:                             *)
(*   - a magnitude is its level in dB re 1.0 (20*log10 of the amplitude);  *)
(*   - a time is in samples (seconds * SampleRate), so that 0.1 s is       *)
(*     SampleRate/10 samples;                                              *)
(*   - a frequency is in Hz * n_fft, so that FFT bin b is b * SampleRate.  *)
(* A grid (the STFT magnitudes, S_db) is stored as the number of frames,   *)
(* a background value and the finitely many cells that differ from it.     *)
(***************************************************************************)
EXTENDS Integers, Sequences, FiniteSets, TLC

\* -------------------------------------------------------------- bounds
NumBins == 57           \* D.shape[0]: rows of the STFT
NumFrames == 55         \* D.shape[1] of a non-silent recording
MaxSilentFrames == 6    \* longest all-zero recording
MaxHot == 3             \* cells of a recording that carry energy
HashModulus == 4        \* size of the key space of hash()
NumSeeds == 2           \* per-process hash secrets

\* ----------------------------------------------------- program constants
SampleRate == 22050             \* librosa.load's default sr
HopLength == 512                \* librosa's default hop_length
AminDb == -100                  \* amplitude_to_db: amin = 1e-5
TopDb == 80                     \* amplitude_to_db: top_db = 80.0
neighborhood_size == 15
CVal == 0                       \* maximum_filter(mode='constant'): cval = 0.0
amplitude_threshold == -50
TARGET_ZONE_FREQ_WIDTH == 200

VARIABLES
    file,               \* the upload handed to fingerprint_song
    song_id,
    pc,                 \* position inside fingerprint_song
    S_db,               \* the dB spectrogram
    peaks,              \* np.where's result: peak cells, row-major
    sorted_peaks,       \* <<time, freq>> of every peak, time-sorted
    i,                  \* index of the anchor (1-based)
    song_fingerprint,   \* hash -> sequence of <<song_id, anchor_time>>
    result,             \* what fingerprint_song returned
    outcome,            \* "none", "returned" or "raised"
    caught,             \* the except clause ran
    pairs,              \* history: the pairs produced, in order
    skipped,            \* history: candidates the break left unscanned
    hash_seed,          \* the interpreter's per-process hash secret
    run,                \* 1: first invocation, 2: the repeated one
    first,              \* the first invocation's result and seed
    fs,                 \* the upload folder: file name -> content
    req                 \* the /fingerprint requests in flight

engine == <<file, song_id, pc, S_db, peaks, sorted_peaks, i, song_fingerprint,
            result, outcome, caught, pairs, skipped, hash_seed, run, first>>

endpoint == <<fs, req>>

vars == <<engine, endpoint>>

\* ------------------------------------------------------------ helpers
Max(S) == CHOOSE x \in S : \A y \in S : y <= x

MaxOf(a, b) == IF a >= b THEN a ELSE b

MinOf(a, b) == IF a <= b THEN a ELSE b

EmptyFingerprint == <<>>

EmptyGrid == [nf |-> 0, bg |-> 0, hot |-> <<>>]

At(G, c) == IF c \in DOMAIN G.hot THEN G.hot[c] ELSE G.bg

\* ------------------------------------------------- 1. Create Spectrogram
\* A magnitude of 0 (minus infinity dB): any level below amin.
ZeroMag == AminDb - 20

\* np.max over the grid.
GridMax(G) == Max({G.bg} \cup {G.hot[c] : c \in DOMAIN G.hot})

\* librosa.amplitude_to_db(np.abs(D), ref=np.max): floor at amin, subtract the
\* floored reference, then clip at top_db below the result's maximum.
AmplitudeToDb(M) ==
    LET ref == MaxOf(GridMax(M), AminDb)
        logSpec(m) == MaxOf(m, AminDb) - ref
        top == logSpec(GridMax(M))
        db(m) == MaxOf(logSpec(m), top - TopDb)
    IN  [nf |-> M.nf, bg |-> db(M.bg),
         hot |-> [c \in DOMAIN M.hot |-> db(M.hot[c])]]

\* ------------------------------------------------------- 2. Find Peaks
Radius == neighborhood_size \div 2

\* The cells of the footprint centred on c that lie inside the grid.
Window(G, c) ==
    (MaxOf(0, c[1] - Radius) .. MinOf(NumBins - 1, c[1] + Radius))
        \X (MaxOf(0, c[2] - Radius) .. MinOf(G.nf - 1, c[2] + Radius))

Overhangs(G, c) ==
    \/ c[1] - Radius < 0
    \/ c[1] + Radius > NumBins - 1
    \/ c[2] - Radius < 0
    \/ c[2] + Radius > G.nf - 1

\* The value a footprint cell outside the grid contributes.
Padding == CVal

\* maximum_filter(S_db, footprint=np.ones((15, 15)), mode='constant') at c.
LocalMax(G, c) ==
    Max({At(G, d) : d \in Window(G, c)}
            \cup (IF Overhangs(G, c) THEN {Padding} ELSE {}))

\* (S_db == local_max) & (S_db > amplitude_threshold)
IsPeak(G, c) == At(G, c) > amplitude_threshold /\ At(G, c) = LocalMax(G, c)

\* The cell with row-major index x (bin * frames + frame).
CellAt(G, x) == <<x \div G.nf, x % G.nf>>

\* np.where(mask): the cells of the mask, row by row (bin ascending, then
\* frame ascending).
Where(G) ==
    LET index == [k \in 1 .. NumBins * G.nf |-> k - 1]
        found == SelectSeq(index, LAMBDA x : IsPeak(G, CellAt(G, x)))
    IN  [k \in 1 .. Len(found) |-> CellAt(G, found[k])]

\* not peaks[0].any(): no row index is non-zero.
NoPeaksFound(p) == ~ \E k \in 1 .. Len(p) : p[k][1] # 0

\* --------------------------------------------------- 3. Structure Peaks
n_fft == (NumBins - 1) * 2

\* librosa.fft_frequencies(sr, n_fft)[b], in Hz * n_fft.
FftFrequency(b) == b * SampleRate

\* librosa.frames_to_time(frames, sr, n_fft), in samples.
FrameToTime(f) == f * HopLength + n_fft \div 2

PeaksList(p) == [k \in 1 .. Len(p) |-> <<FrameToTime(p[k][2]), FftFrequency(p[k][1])>>]

RECURSIVE SortKeys(_, _)
\* The elements of s whose time is in keys: key by key in ascending order,
\* the elements of one key in the order they have in s.
SortKeys(s, keys) ==
    IF keys = {} THEN <<>>
    ELSE LET m == CHOOSE x \in keys : \A y \in keys : x <= y
         IN  SelectSeq(s, LAMBDA p : p[1] = m) \o SortKeys(s, keys \ {m})

\* The list left as np.where produced it (the sort forgotten).
Unsorted(s) == s

Reverse(s) == [k \in 1 .. Len(s) |-> s[Len(s) + 1 - k]]

\* A sort by time that is not stable: peaks of equal time come out reversed.
SortedByTimeUnstable(s) == Reverse(SortKeys(Reverse(s), {s[k][1] : k \in 1 .. Len(s)}))

\* sorted(peaks_list, key=lambda p: p[0]): stable, by time alone.
SortedByTime(s) == SortKeys(s, {s[k][1] : k \in 1 .. Len(s)})

\* ------------------------------------------------------ 4. Create Hashes
TARGET_ZONE_START_TIME == SampleRate \div 10             \* 0.1 s

TARGET_ZONE_TIME_DURATION == (8 * SampleRate) \div 10    \* 0.8 s

ZoneFreqWidth == TARGET_ZONE_FREQ_WIDTH * n_fft          \* 200 Hz

TMin(a) == a[1] + TARGET_ZONE_START_TIME

TMax(a) == TMin(a) + TARGET_ZONE_TIME_DURATION

FMin(a) == a[2] - ZoneFreqWidth

FMax(a) == a[2] + ZoneFreqWidth

\* The zone test without its lower time bound.
InTargetZoneNoStart(a, t) ==
    /\ t[1] <= TMax(a)
    /\ FMin(a) <= t[2] /\ t[2] <= FMax(a)

\* t_min <= target_time <= t_max and f_min <= target_freq <= f_max
InTargetZone(a, t) ==
    /\ TMin(a) <= t[1] /\ t[1] <= TMax(a)
    /\ FMin(a) <= t[2] /\ t[2] <= FMax(a)

\* A hash salted with the per-process secret, as the built-in hash of a str is.
HashSalted(af, tf, dt, seed) ==
    ((((af % HashModulus) * 31 + tf) % HashModulus) * 31 + dt + seed) % HashModulus

\* hash((anchor_freq, target_freq, time_delta)): the built-in hash of a tuple of
\* floats mixes the three numbers and nothing else; the interpreter's hash
\* secret salts str and bytes only.
Hash(af, tf, dt, seed) ==
    ((((af % HashModulus) * 31 + tf) % HashModulus) * 31 + dt) % HashModulus

PairHash(sp, a, t, seed) == Hash(sp[a][2], sp[t][2], sp[t][1] - sp[a][1], seed)

\* The list at one key when only the latest entry is kept (LATEST mode).
AppendAllLatest(list, entries) == <<entries[Len(entries)]>>

\* list.append(entry) for every entry of entries, in order.
AppendAll(list, entries) == list \o entries

\* song_fingerprint.setdefault(h, []).append(entry) for every entry of
\* entries, in order.
AddEntries(fp, h, entries) ==
    AppendAll(IF h \in DOMAIN fp THEN fp[h] ELSE <<>>, entries)

\* The index at which `for j in range(i + 1, len(sorted_peaks))` is left: the
\* first j whose time exceeds t_max (the break), or the end of the list.
BreakIndex(sp, a) ==
    LET late == {j \in a + 1 .. Len(sp) : sp[j][1] > TMax(sp[a])}
    IN  IF late = {} THEN Len(sp) + 1
        ELSE CHOOSE j \in late : \A k \in late : j <= k

\* The candidates after the one that triggered the break.
Unscanned(sp, a) ==
    IF BreakIndex(sp, a) > Len(sp) THEN 0 ELSE Len(sp) - BreakIndex(sp, a)

\* The j the loop passes for anchor a, in order, that meet its condition.
Targets(sp, a) ==
    LET stop == BreakIndex(sp, a)
    IN  SelectSeq([j \in 1 .. Len(sp) |-> j],
                  LAMBDA j : a < j /\ j < stop /\ InTargetZone(sp[a], sp[j]))

\* The entries one anchor's passes append at key h: one per target whose
\* hash is h, all of them (sid, anchor_time).
EntriesAt(sp, a, ts, h, sid, seed) ==
    LET mine == SelectSeq(ts, LAMBDA j : PairHash(sp, a, j, seed) = h)
    IN  [k \in 1 .. Len(mine) |-> <<sid, sp[a][1]>>]

\* song_fingerprint after the passes of anchor a over its targets ts.
AddTargets(fp, sp, a, ts, sid, seed) ==
    LET keys == {PairHash(sp, a, ts[k], seed) : k \in 1 .. Len(ts)}
    IN  [h \in DOMAIN fp \cup keys |->
            IF h \in keys
            THEN AddEntries(fp, h, EntriesAt(sp, a, ts, h, sid, seed))
            ELSE fp[h]]

\* ---------------------------------------------------------------- inputs
HotBins == {0, 7, 8}

HotFrames == {8, 13, 47}

Levels == {0, -20}

Seeds == 1 .. NumSeeds

SongIds == {"s1"}

HotSets == {H \in SUBSET (HotBins \X HotFrames) : Cardinality(H) \in 1 .. MaxHot}

\* The STFT magnitudes of a recording whose energy sits in a few cells.
SparseMags == UNION {{[nf |-> NumFrames, bg |-> ZeroMag, hot |-> h] :
                        h \in [H -> Levels]} : H \in HotSets}

\* The STFT magnitudes of an all-zero waveform of n frames.
SilentMags == {[nf |-> n, bg |-> ZeroMag, hot |-> <<>>] : n \in 1 .. MaxSilentFrames}

ToneSets == {{0}, {7}, {7, 8}}

\* The STFT magnitudes of steady pure tones: every frame of a tone's bin
\* carries the same magnitude.
ToneMags == {[nf |-> NumFrames, bg |-> ZeroMag,
              hot |-> [c \in B \X (0 .. NumFrames - 1) |-> 0]] : B \in ToneSets}

Files == {[kind |-> "audio", mag |-> m] : m \in SparseMags \cup SilentMags \cup ToneMags}
            \cup {[kind |-> "undecodable", mag |-> EmptyGrid]}

\* ------------------------------------------------------ fingerprint_song
Reset ==
    /\ pc' = "load"
    /\ S_db' = EmptyGrid
    /\ peaks' = <<>>
    /\ sorted_peaks' = <<>>
    /\ i' = 0
    /\ song_fingerprint' = EmptyFingerprint
    /\ result' = EmptyFingerprint
    /\ outcome' = "none"
    /\ caught' = FALSE
    /\ pairs' = <<>>
    /\ skipped' = 0

Init ==
    /\ file \in Files
    /\ song_id \in SongIds
    /\ hash_seed = 1
    /\ run = 1
    /\ first = [result |-> EmptyFingerprint, seed |-> 0]
    /\ pc = "load"
    /\ S_db = EmptyGrid
    /\ peaks = <<>>
    /\ sorted_peaks = <<>>
    /\ i = 0
    /\ song_fingerprint = EmptyFingerprint
    /\ result = EmptyFingerprint
    /\ outcome = "none"
    /\ caught = FALSE
    /\ pairs = <<>>
    /\ skipped = 0
    /\ fs = <<>>
    /\ req = <<>>

\* y, sr = librosa.load(file_path): raises on a file it cannot decode.
Load ==
    /\ pc = "load"
    /\ pc' = IF file.kind = "audio" THEN "stft" ELSE "except"
    /\ UNCHANGED <<file, song_id, S_db, peaks, sorted_peaks, i, song_fingerprint,
                   result, outcome, caught, pairs, skipped, hash_seed, run, first>>
    /\ UNCHANGED endpoint

\* except Exception as e: print(...); return {}
Except ==
    /\ pc = "except"
    /\ caught' = TRUE
    /\ result' = EmptyFingerprint
    /\ outcome' = "returned"
    /\ pc' = "done"
    /\ UNCHANGED <<file, song_id, S_db, peaks, sorted_peaks, i, song_fingerprint,
                   pairs, skipped, hash_seed, run, first>>
    /\ UNCHANGED endpoint

\* D = librosa.stft(y); S_db = librosa.amplitude_to_db(np.abs(D), ref=np.max)
Spectrogram ==
    /\ pc = "stft"
    /\ S_db' = AmplitudeToDb(file.mag)
    /\ pc' = "peaks"
    /\ UNCHANGED <<file, song_id, peaks, sorted_peaks, i, song_fingerprint,
                   result, outcome, caught, pairs, skipped, hash_seed, run, first>>
    /\ UNCHANGED endpoint

\* peaks = np.where(...); if not peaks[0].any(): return {}
FindPeaks ==
    /\ pc = "peaks"
    /\ peaks' = Where(S_db)
    /\ IF NoPeaksFound(peaks')
       THEN /\ result' = EmptyFingerprint
            /\ outcome' = "returned"
            /\ pc' = "done"
       ELSE /\ pc' = "structure"
            /\ UNCHANGED <<result, outcome>>
    /\ UNCHANGED <<file, song_id, S_db, sorted_peaks, i, song_fingerprint,
                   caught, pairs, skipped, hash_seed, run, first>>
    /\ UNCHANGED endpoint

\* sorted_peaks = sorted(peaks_list, key=lambda p: p[0]); song_fingerprint = {}
StructurePeaks ==
    /\ pc = "structure"
    /\ sorted_peaks' = SortedByTime(PeaksList(peaks))
    /\ song_fingerprint' = EmptyFingerprint
    /\ i' = 1
    /\ pc' = "pair"
    /\ UNCHANGED <<file, song_id, S_db, peaks, result, outcome, caught, pairs,
                   skipped, hash_seed, run, first>>
    /\ UNCHANGED endpoint

\* One iteration of `for i, anchor_peak in enumerate(sorted_peaks)`.
PairAnchor ==
    /\ pc = "pair"
    /\ i <= Len(sorted_peaks)
    /\ LET ts == Targets(sorted_peaks, i)
       IN  /\ song_fingerprint' =
                  AddTargets(song_fingerprint, sorted_peaks, i, ts, song_id, hash_seed)
           /\ pairs' = pairs \o [k \in 1 .. Len(ts) |-> <<i, ts[k]>>]
           /\ skipped' = skipped + Unscanned(sorted_peaks, i)
    /\ i' = i + 1
    /\ UNCHANGED <<file, song_id, pc, S_db, peaks, sorted_peaks, result, outcome,
                   caught, hash_seed, run, first>>
    /\ UNCHANGED endpoint

\* return song_fingerprint
Return ==
    /\ pc = "pair"
    /\ i > Len(sorted_peaks)
    /\ result' = song_fingerprint
    /\ outcome' = "returned"
    /\ pc' = "done"
    /\ UNCHANGED <<file, song_id, S_db, peaks, sorted_peaks, i, song_fingerprint,
                   caught, pairs, skipped, hash_seed, run, first>>
    /\ UNCHANGED endpoint

\* The same file and song_id are fingerprinted again, by this process or by a
\* new one (a new hash secret).
Rerun ==
    /\ pc = "done"
    /\ run = 1
    /\ run' = 2
    /\ first' = [result |-> result, seed |-> hash_seed]
    /\ hash_seed' \in Seeds
    /\ Reset
    /\ UNCHANGED <<file, song_id>>
    /\ UNCHANGED endpoint

Next ==
    \/ Load
    \/ Except
    \/ Spectrogram
    \/ FindPeaks
    \/ StructurePeaks
    \/ PairAnchor
    \/ Return
    \/ Rerun

Spec == Init /\ [][Next]_vars

\* ------------------------------------------------ the /fingerprint endpoint
Requests == {1, 2}

\* An uploaded file name, as its path components; <<>> is the empty name.
RawNames == {<<>>, <<"a.mp3">>, <<"..", "a.mp3">>, <<"b.mp3">>}

Contents == {"tone", "chirp", "noise"}

FormSongIds == {"", "s1"}

\* werkzeug's secure_filename: the path components that could leave the
\* upload folder are dropped.
SecureFilename(name) == SelectSeq(name, LAMBDA x : x \notin {"..", "."})

\* os.path.join(app.config['UPLOAD_FOLDER'], filename)
FilePath(name) == <<"uploads">> \o SecureFilename(name)

\* fingerprint_song as a function of what the file holds when librosa.load reads
\* it: {} when the load raises (no such file, or not audio), else the
\* fingerprint of that content.
FingerprintOfContent(content, sid) ==
    IF content = "noise" THEN EmptyFingerprint
    ELSE [h \in {content} |-> <<<<sid, 0>>>>]

FingerprintOfFile(files, path, sid) ==
    IF path \notin DOMAIN files THEN EmptyFingerprint
    ELSE FingerprintOfContent(files[path], sid)

BadRequest(msg) == [status |-> 400, body |-> msg]

\* if not fingerprint_data: ... else: jsonify(fingerprint_data)
FingerprintResponse(data, sid) ==
    IF data = EmptyFingerprint
    THEN [status |-> 200, body |-> [song_id |-> sid, fingerprint |-> EmptyFingerprint]]
    ELSE [status |-> 200, body |-> data]

\* os.remove raising FileNotFoundError is not handled: the framework answers 500.
ServerError == [status |-> 500, body |-> "Internal Server Error"]

NoResponse == [status |-> 0, body |-> ""]

InitEndpoint ==
    /\ file = [kind |-> "undecodable", mag |-> EmptyGrid]
    /\ song_id = "s1"
    /\ hash_seed = 1
    /\ run = 1
    /\ first = [result |-> EmptyFingerprint, seed |-> 0]
    /\ pc = "idle"
    /\ S_db = EmptyGrid
    /\ peaks = <<>>
    /\ sorted_peaks = <<>>
    /\ i = 0
    /\ song_fingerprint = EmptyFingerprint
    /\ result = EmptyFingerprint
    /\ outcome = "none"
    /\ caught = FALSE
    /\ pairs = <<>>
    /\ skipped = 0
    /\ fs = <<>>
    /\ req \in [Requests -> [pc : {"validate"}, has_file : BOOLEAN, name : RawNames,
                              content : Contents, song : FormSongIds,
                              data : {EmptyFingerprint}, response : {NoResponse}]]

\* The checks of the request's fields.
Validate(r) ==
    /\ req[r].pc = "validate"
    /\ req' = [req EXCEPT ![r] =
          IF ~ @.has_file
          THEN [@ EXCEPT !.pc = "done", !.response = BadRequest("No file part in the request")]
          ELSE IF @.song = ""
          THEN [@ EXCEPT !.pc = "done", !.response = BadRequest("No song_id provided")]
          ELSE IF @.name = <<>>
          THEN [@ EXCEPT !.pc = "done", !.response = BadRequest("No selected file")]
          ELSE [@ EXCEPT !.pc = "save"]]
    /\ UNCHANGED <<fs, engine>>

\* file.save(file_path)
Save(r) ==
    /\ req[r].pc = "save"
    /\ LET path == FilePath(req[r].name)
       IN  fs' = [p \in DOMAIN fs \cup {path} |->
                     IF p = path THEN req[r].content ELSE fs[p]]
    /\ req' = [req EXCEPT ![r].pc = "fingerprint"]
    /\ UNCHANGED engine

\* fingerprint_data = fingerprint_song(file_path, song_id)
Fingerprint(r) ==
    /\ req[r].pc = "fingerprint"
    /\ req' = [req EXCEPT ![r].pc = "remove",
                          ![r].data = FingerprintOfFile(fs, FilePath(req[r].name),
                                                        req[r].song)]
    /\ UNCHANGED <<fs, engine>>

\* os.remove(file_path)
Remove(r) ==
    /\ req[r].pc = "remove"
    /\ LET path == FilePath(req[r].name)
       IN  IF path \in DOMAIN fs
           THEN /\ fs' = [p \in DOMAIN fs \ {path} |-> fs[p]]
                /\ req' = [req EXCEPT ![r].pc = "respond"]
           ELSE /\ fs' = fs
                /\ req' = [req EXCEPT ![r].pc = "done", ![r].response = ServerError]
    /\ UNCHANGED engine

\* The handler's return.
Respond(r) ==
    /\ req[r].pc = "respond"
    /\ req' = [req EXCEPT ![r].pc = "done",
                          ![r].response = FingerprintResponse(req[r].data, req[r].song)]
    /\ UNCHANGED <<fs, engine>>

NextEndpoint ==
    \E r \in Requests :
        \/ Validate(r)
        \/ Save(r)
        \/ Fingerprint(r)
        \/ Remove(r)
        \/ Respond(r)

SpecEndpoint == InitEndpoint /\ [][NextEndpoint]_vars

\* ================================================================ claims
Time(p) == p[1]

Freq(p) == p[2]

Anchor(k) == sorted_peaks[pairs[k][1]]

Target(k) == sorted_peaks[pairs[k][2]]

Abs(x) == IF x < 0 THEN 0 - x ELSE x

\* 10 * seconds, in samples.
Tenths(n) == (n * SampleRate) \div 10

\* Hz, in the unit of the frequencies.
Hertz(n) == n * n_fft

\* The loop has run to its end and fingerprint_song has returned its dict.
Completed == pc = "done" /\ ~ caught /\ i > Len(sorted_peaks)

\* The `if not peaks[0].any()` return has been taken.
EarlyReturn == pc = "done" /\ ~ caught /\ i = 0

IsSilent(f) == f.kind = "audio" /\ f.mag.hot = <<>> /\ f.mag.bg = ZeroMag

\* C1: every pair that fingerprint_song has added an entry for has its target
\* between 0.1 s and 0.9 s after its anchor and within 200 Hz of it; so the
\* target is strictly later than the anchor and is another peak.
C1_ZoneContainment ==
    \A k \in 1 .. Len(pairs) :
        /\ Time(Anchor(k)) + Tenths(1) <= Time(Target(k))
        /\ Time(Target(k)) <= Time(Anchor(k)) + Tenths(1) + Tenths(8)
        /\ Abs(Freq(Target(k)) - Freq(Anchor(k))) <= Hertz(200)
        /\ Time(Target(k)) > Time(Anchor(k))
        /\ pairs[k][1] # pairs[k][2]

\* A finished run that produced pairs, one of them across two frequency bins.
C1_Witness ==
    /\ Completed
    /\ \E k \in 1 .. Len(pairs) : Freq(Target(k)) # Freq(Anchor(k))

\* The largest value among the cells of c's 15x15 neighbourhood that lie inside
\* the spectrogram (cells outside count as the minimum possible value).
InBoundsMax(G, c) == Max({At(G, d) : d \in Window(G, c)})

PeakSet == {peaks[k] : k \in 1 .. Len(peaks)}

\* C2: once the peaks are extracted, a cell is a peak iff its value exceeds
\* -50 dB and equals the maximum over its neighbourhood, cells outside the
\* spectrogram counting as the minimum possible value.
C2_PeakIffLocalMax ==
    pc = "structure" =>
        \A x \in 0 .. NumBins * S_db.nf - 1 :
            LET c == CellAt(S_db, x)
            IN  (At(S_db, c) > -50 /\ At(S_db, c) = InBoundsMax(S_db, c))
                    <=> c \in PeakSet

\* C3: an all-zero waveform of any length yields an empty fingerprint.
C3_SilenceLaw ==
    (pc = "done" /\ IsSilent(file)) => result = EmptyFingerprint

\* The entries of the pairs whose hash is h, in the order the pairs were made.
EntriesOf(h) ==
    LET mine == SelectSeq(pairs, LAMBDA q : PairHash(sorted_peaks, q[1], q[2], hash_seed) = h)
    IN  [k \in 1 .. Len(mine) |-> <<song_id, Time(sorted_peaks[mine[k][1]])>>]

RECURSIVE SumLen(_, _)
SumLen(fp, keys) ==
    IF keys = {} THEN 0
    ELSE LET h == CHOOSE x \in keys : TRUE
         IN  Len(fp[h]) + SumLen(fp, keys \ {h})

\* C4: the list stored at each key is exactly the entries of the pairs with
\* that hash, in the order the pairs were produced (anchor ascending, then
\* target ascending); every key maps to a non-empty list, the entries total
\* the number of pairs, and the dict returned is that one.
C4_Accumulation ==
    /\ DOMAIN song_fingerprint =
          {PairHash(sorted_peaks, pairs[k][1], pairs[k][2], hash_seed) : k \in 1 .. Len(pairs)}
    /\ \A h \in DOMAIN song_fingerprint :
          /\ song_fingerprint[h] = EntriesOf(h)
          /\ Len(song_fingerprint[h]) > 0
    /\ SumLen(song_fingerprint, DOMAIN song_fingerprint) = Len(pairs)
    /\ \A k \in 1 .. Len(pairs) - 1 :
          \/ pairs[k][1] < pairs[k + 1][1]
          \/ pairs[k][1] = pairs[k + 1][1] /\ pairs[k][2] < pairs[k + 1][2]
    /\ Completed => result = song_fingerprint

\* A returned fingerprint with a key that holds entries of two anchors.
C4_Witness ==
    /\ Completed
    /\ \E h \in DOMAIN result :
          \E k, l \in 1 .. Len(result[h]) : result[h][k] # result[h][l]

\* C5: a failure inside fingerprint_song reaches the caller as an error, never
\* as a returned (empty) fingerprint.
C5_FailureSurfaces ==
    (pc = "done" /\ (caught \/ file.kind = "undecodable")) => outcome = "raised"

ExhaustivePairs ==
    {q \in (1 .. Len(sorted_peaks)) \X (1 .. Len(sorted_peaks)) :
        /\ q[1] < q[2]
        /\ Time(sorted_peaks[q[2]]) >= Time(sorted_peaks[q[1]]) + Tenths(1)
        /\ Time(sorted_peaks[q[2]]) <= Time(sorted_peaks[q[1]]) + Tenths(9)
        /\ Freq(sorted_peaks[q[2]]) >= Freq(sorted_peaks[q[1]]) - Hertz(200)
        /\ Freq(sorted_peaks[q[2]]) <= Freq(sorted_peaks[q[1]]) + Hertz(200)}

\* C7: the pairs the loop with its break produces are the pairs an exhaustive
\* scan produces.
C7_EarlyExitEquivalence ==
    Completed => {pairs[k] : k \in 1 .. Len(pairs)} = ExhaustivePairs

\* A finished run in which the break left candidates unscanned.
C7_Witness == Completed /\ skipped > 0 /\ pairs # <<>>

\* C8: sorted_peaks ascends in time, and peaks of equal time ascend in
\* frequency.
C8_SortedTimeThenFreq ==
    \A k \in 1 .. Len(sorted_peaks) - 1 :
        \/ Time(sorted_peaks[k]) < Time(sorted_peaks[k + 1])
        \/ /\ Time(sorted_peaks[k]) = Time(sorted_peaks[k + 1])
           /\ Freq(sorted_peaks[k]) < Freq(sorted_peaks[k + 1])

\* A sorted list that holds two peaks of one frame and that the sort had to
\* reorder (np.where's row-major order was not already time order).
C8_Witness ==
    /\ pc = "pair"
    /\ \E k \in 1 .. Len(sorted_peaks) - 1 :
          Time(sorted_peaks[k]) = Time(sorted_peaks[k + 1])
    /\ PeaksList(peaks) # sorted_peaks

\* Some qualifying peak has another qualifying peak inside its target zone.
HasForwardPair ==
    LET pl == PeaksList(peaks)
    IN  \E a, t \in 1 .. Len(pl) :
            /\ Time(pl[t]) >= Time(pl[a]) + Tenths(1)
            /\ Time(pl[t]) <= Time(pl[a]) + Tenths(9)
            /\ Abs(Freq(pl[t]) - Freq(pl[a])) <= Hertz(200)

\* C9: the 'no peaks' return is taken only when no cell qualifies, so whenever
\* the qualifying peaks hold a forward pair the fingerprint returned is not
\* empty.
C9_NoPeaksReturnOnlyWhenNoPeaks ==
    /\ EarlyReturn => peaks = <<>>
    /\ (pc = "done" /\ ~ caught /\ HasForwardPair) => result # EmptyFingerprint

\* The response a request gets when it is the only one.
AloneResponse(q) ==
    IF ~ q.has_file THEN BadRequest("No file part in the request")
    ELSE IF q.song = "" THEN BadRequest("No song_id provided")
    ELSE IF q.name = <<>> THEN BadRequest("No selected file")
    ELSE FingerprintResponse(FingerprintOfContent(q.content, q.song), q.song)

\* C10: whatever the interleaving, each request's response is the one it gets
\* when run alone.
C10_RequestsDoNotInteract ==
    \A r \in DOMAIN req : req[r].pc = "done" => req[r].response = AloneResponse(req[r])

====
